---------------------------- MODULE Spec2Model ----------------------------
(***************************************************************************)
(* Model of calcularPi_GregoryLeibniz.py: the time-bounded parallel        *)
(* accumulation loop calculate_pi_parallel and the chunk evaluator         *)
(* gregory_leibniz_worker.                                                 *)
(*                                                                         *)
(* Floating point.  Python floats are binary floating-point numbers with   *)
(* round-half-even.  The model keeps the arithmetic but scales the         *)
(* mantissa down to MantBits bits: a float is the integer number of units  *)
(* of 2^-FracBits it is worth, and every division and addition rounds its  *)
(* exact result to MantBits significant bits.                              *)
(***************************************************************************)
EXTENDS Integers, Sequences, FiniteSets, TLC

\* ------------------------------------------------------------------ bounds
MaxWorkers   == 3      \* largest num_processes tried
MaxChunk     == 2      \* largest chunk_size tried (the source fixes 1000000)
MaxTimeLimit == 2      \* largest time_limit tried, in clock ticks
MaxBatches   == 3      \* batches dispatched before the loop waits for the clock
MantBits     == 6      \* significant bits of a float (53 in CPython)
MaxIndex     == 6      \* largest series index given to the evaluator alone

FracBits == MantBits + 12
One      == 2 ^ FracBits
MaxClock == MaxTimeLimit + 2

WorkerCounts == (0 - 1) .. MaxWorkers
TimeLimits   == (0 - 1) .. MaxTimeLimit
ChunkSizes   == 1 .. MaxChunk
StartClocks  == 0 .. 1

\* ------------------------------------------------------- float arithmetic
\* the binary exponent of n >= 1: the e with 2^e <= n < 2^(e+1)
Ilog2(n) == Cardinality({e \in 1 .. 30 : 2 ^ e <= n})

\* the spacing of floats around a value of n units, n >= 1
Quantum(n) == LET e == Ilog2(n)
              IN  IF e >= MantBits THEN 2 ^ (e - MantBits + 1) ELSE 1

\* a \div b rounded to the nearest integer, ties to even (a >= 0, b > 0)
RoundHalfEven(a, b) ==
    LET f == a \div b
        r == a % b
    IN  IF 2 * r < b THEN f
        ELSE IF 2 * r > b THEN f + 1
        ELSE IF f % 2 = 0 THEN f ELSE f + 1

\* the float nearest to the rational num/den units (num >= 0, den > 0)
RoundRat(num, den) ==
    IF num \div den = 0 THEN RoundHalfEven(num, den)
    ELSE LET q == Quantum(num \div den)
         IN  q * RoundHalfEven(num, den * q)

FRound(n) == IF n < 0 THEN 0 - RoundRat(0 - n, 1) ELSE RoundRat(n, 1)

\* float + float: the exact sum, computed once, then rounded
FAdd(x, y) == CHOOSE r \in {FRound(exact) : exact \in {x + y}} : TRUE

\* int / int (true division): a / b for b > 0
FDiv(a, b) == IF a < 0 THEN 0 - RoundRat((0 - a) * One, b)
              ELSE RoundRat(a * One, b)

\* (-1)**i
MinusOnePow(i) == IF i % 2 = 0 THEN 1 ELSE 0 - 1

\* float * 4: a power-of-two scaling, exact
FMul4(x) == 4 * x

\* ------------------------------------------------- gregory_leibniz_worker
RECURSIVE WorkerLoop(_, _, _)
WorkerLoop(i, end, partial_sum) ==
    IF i >= end THEN partial_sum
    ELSE WorkerLoop(i + 1, end,
                    FAdd(partial_sum, FDiv(MinusOnePow(i), 2 * i + 1)))

\* a loop that takes the end index as well
WorkerIncludingEnd(start, end) == WorkerLoop(start, end + 1, 0)

gregory_leibniz_worker(start, end) == WorkerLoop(start, end, 0)

\* sum(results): left fold from 0, each addition rounded (the builtin sum
\* before CPython 3.12; later versions compensate the rounding error)
RECURSIVE SumSeq(_)
SumSeq(s) == IF s = <<>> THEN 0
             ELSE FAdd(SumSeq(SubSeq(s, 1, Len(s) - 1)), s[Len(s)])

\* ------------------------------------------------------------------ state
VARIABLES
    num_processes,     \* argument of calculate_pi_parallel
    time_limit,        \* argument of calculate_pi_parallel
    chunk_size,        \* line 19
    total_iterations,  \* line 20
    pi_value,          \* line 21
    start_time,        \* line 22
    now,               \* time.time()
    pc,                \* position of the control thread
    pool,              \* worker processes of the mp.Pool, 0 when there is none
    pools_created,     \* how many times an mp.Pool was constructed
    ranges,            \* line 27, the batch under construction or in flight
    tasks,             \* chunk evaluations the pool holds
    results,           \* line 31
    batch,             \* number of batches dispatched so far
    folded,            \* number of batches folded so far
    issued,            \* every chunk range ever handed to the pool, in order
    batch_sums,        \* sum(results) of every batch folded, in order
    error,             \* the exception that ended the call, "" when none
    returned,          \* the value returned, <<>> until the call returns
    ev,                \* a direct use of gregory_leibniz_worker, <<>> when none
    other,             \* the frame of a second, concurrent call, <<>> when none
    main_pc,           \* position of main, "none" when the call is not main's
    n_processes,       \* main's loop variable, line 50
    main_results,      \* main's results list, line 44
    chunk_time         \* simulated duration of a batch, 0 with the real clock

vars == <<num_processes, time_limit, chunk_size, total_iterations, pi_value,
          start_time, now, pc, pool, pools_created, ranges, tasks, results,
          batch, folded, issued, batch_sums, error, returned,
          ev, other, main_pc, n_processes, main_results, chunk_time>>

args  == <<num_processes, time_limit, chunk_size>>
accum == <<total_iterations, pi_value>>
ghost == <<folded, issued, batch_sums>>
outer == <<ev, other, main_pc, n_processes, main_results, chunk_time>>

\* nothing but the one call exists
NoOuter ==
    /\ ev = <<>>
    /\ other = <<>>
    /\ main_pc = "none"
    /\ n_processes = 0
    /\ main_results = <<>>
    /\ chunk_time = 0

Finished == {"ok", "err"}

\* an elapsed time taken once, when the call starts, and never refreshed
ElapsedFrozen == start_time - start_time

elapsed == now - start_time

\* the call is entered with its arguments; nothing has run yet
Init ==
    /\ num_processes \in WorkerCounts
    /\ time_limit \in TimeLimits
    /\ chunk_size \in ChunkSizes
    /\ now \in StartClocks
    /\ total_iterations = 0
    /\ pi_value = 0
    /\ start_time = 0
    /\ pc = "call"
    /\ pool = 0
    /\ pools_created = 0
    /\ ranges = <<>>
    /\ tasks = {}
    /\ results = <<>>
    /\ batch = 0
    /\ folded = 0
    /\ issued = <<>>
    /\ batch_sums = <<>>
    /\ error = ""
    /\ returned = <<>>
    /\ NoOuter

\* time.time() moves on while the call is running
Tick ==
    /\ pc \notin {"call", "done", "raised"}
    /\ now < MaxClock
    /\ now' = now + 1
    /\ UNCHANGED <<outer, args, accum, start_time, pc, pool, pools_created,
                   ranges,
                   tasks, results, batch, ghost, error, returned>>

\* lines 19-22
Begin ==
    /\ pc = "call"
    /\ total_iterations' = 0
    /\ pi_value' = 0
    /\ start_time' = now
    /\ pc' = "pool"
    /\ UNCHANGED <<outer, args, now, pool, pools_created, ranges, tasks,
                   results,
                   batch, ghost, error, returned>>

\* a pool that takes an empty set of workers
PoolAcceptsZero(n) == n >= 0

\* mp.Pool(processes=n) raises ValueError unless n >= 1
PoolAccepts(n) == n >= 1

\* line 24, entering the with block
CreatePool ==
    /\ pc = "pool"
    /\ IF PoolAccepts(num_processes)
       THEN /\ pool' = num_processes
            /\ pools_created' = pools_created + 1
            /\ pc' = "loop"
            /\ error' = error
       ELSE /\ pool' = pool
            /\ pools_created' = pools_created
            /\ pc' = "raised"
            /\ error' = "ValueError"
    /\ UNCHANGED <<outer, args, accum, start_time, now, ranges, tasks, results,
                   batch, ghost, returned>>

\* a while condition that still admits a batch when the limit is just reached
LoopConditionInclusive == elapsed <= time_limit

\* a loop that runs its first batch before it looks at the clock
LoopCheckDoWhile ==
    /\ pc = "loop"
    /\ IF batch = 0 \/ elapsed < time_limit
       THEN batch < MaxBatches /\ pc' = "build"
       ELSE pc' = "exit"
    /\ UNCHANGED <<outer, args, accum, start_time, now, pool, pools_created,
                   ranges,
                   tasks, results, batch, ghost, error, returned>>

\* line 25: the while condition
LoopCondition == elapsed < time_limit

LoopCheck ==
    /\ pc = "loop"
    /\ IF LoopCondition
       THEN batch < MaxBatches /\ pc' = "build"
       ELSE pc' = "exit"
    /\ UNCHANGED <<outer, args, accum, start_time, now, pool, pools_created,
                   ranges,
                   tasks, results, batch, ghost, error, returned>>

\* lines 27-28: the k-th range of a batch, k = 0 .. num_processes-1
ChunkRange(k) == <<k * chunk_size, (k + 1) * chunk_size>>

BuildRanges == [j \in 1 .. num_processes |-> ChunkRange(j - 1)]

\* lines 27-31: build the ranges and hand them to pool.starmap
Dispatch ==
    /\ pc = "build"
    /\ ranges' = BuildRanges
    /\ batch' = batch + 1
    /\ tasks' = tasks \cup
                  { [b |-> batch + 1, k |-> j, start |-> BuildRanges[j][1],
                     end |-> BuildRanges[j][2], st |-> "queued", val |-> 0]
                    : j \in 1 .. num_processes }
    /\ issued' = issued \o BuildRanges
    /\ pc' = "starmap"
    /\ UNCHANGED <<outer, args, accum, start_time, now, pool, pools_created,
                   results, folded, batch_sums, error, returned>>

Running == {t \in tasks : t.st = "running"}

\* a free worker process takes a queued chunk
WorkerStart(t) ==
    /\ t \in tasks
    /\ t.st = "queued"
    /\ Cardinality(Running) < pool
    /\ tasks' = (tasks \ {t}) \cup {[t EXCEPT !.st = "running"]}
    /\ UNCHANGED <<outer, args, accum, start_time, now, pc, pool,
                   pools_created,
                   ranges, results, batch, ghost, error, returned>>

\* a worker that counts its chunk into the shared total itself
WorkerFinishCounting(t) ==
    /\ t \in tasks
    /\ t.st = "running"
    /\ tasks' = (tasks \ {t}) \cup
                  {[t EXCEPT !.st = "ok",
                             !.val = gregory_leibniz_worker(t.start, t.end)]}
    /\ total_iterations' = total_iterations + chunk_size
    /\ UNCHANGED <<outer, args, pi_value, start_time, now, pc, pool,
                   pools_created,
                   ranges, results, batch, ghost, error, returned>>

\* lines 7-12 run to the end in the worker process
WorkerFinish(t) ==
    /\ t \in tasks
    /\ t.st = "running"
    /\ tasks' = (tasks \ {t}) \cup
                  {[t EXCEPT !.st = "ok",
                             !.val = gregory_leibniz_worker(t.start, t.end)]}
    /\ UNCHANGED <<outer, args, accum, start_time, now, pc, pool,
                   pools_created,
                   ranges, results, batch, ghost, error, returned>>

\* the evaluation raises in the worker process (MemoryError, a killed worker)
WorkerFail(t) ==
    /\ t \in tasks
    /\ t.st = "running"
    /\ tasks' = (tasks \ {t}) \cup {[t EXCEPT !.st = "err"]}
    /\ UNCHANGED <<outer, args, accum, start_time, now, pc, pool,
                   pools_created,
                   ranges, results, batch, ghost, error, returned>>

\* a starmap that stops waiting at the first task to report
FirstResolved == \E t \in tasks : t.st \in Finished

\* a starmap that gives up waiting once the deadline has passed
ResolvedOrTimedOut ==
    \/ \A t \in tasks : t.st \in Finished
    \/ elapsed >= time_limit

\* pool.starmap blocks until every task of the call has reported
BatchResolved == \A t \in tasks : t.st \in Finished

Collected == {t \in tasks : t.st \in Finished}

ResultOf(j) ==
    LET got == {t \in Collected : t.b = batch /\ t.k = j}
    IN  IF got = {} THEN 0 ELSE (CHOOSE t \in got : TRUE).val

\* a starmap that hands the results back in the order they were completed
StarmapReturnAnyOrder ==
    /\ pc = "starmap"
    /\ BatchResolved
    /\ \A t \in Collected : t.st = "ok"
    /\ \E p \in Permutations(1 .. num_processes) :
          results' = [j \in 1 .. num_processes |-> ResultOf(p[j])]
    /\ tasks' = tasks \ Collected
    /\ pc' = "fold"
    /\ UNCHANGED <<outer, args, accum, start_time, now, pool, pools_created,
                   ranges,
                   batch, ghost, error, returned>>

\* a starmap that puts 0 in place of a failed chunk's result
StarmapReturnSwallow ==
    /\ pc = "starmap"
    /\ BatchResolved
    /\ results' = [j \in 1 .. num_processes |-> ResultOf(j)]
    /\ tasks' = tasks \ Collected
    /\ pc' = "fold"
    /\ UNCHANGED <<outer, args, accum, start_time, now, pool, pools_created,
                   ranges,
                   batch, ghost, error, returned>>

\* line 31: starmap returns the results in the order of the ranges
StarmapReturn ==
    /\ pc = "starmap"
    /\ BatchResolved
    /\ \A t \in Collected : t.st = "ok"
    /\ results' = [j \in 1 .. num_processes |-> ResultOf(j)]
    /\ tasks' = tasks \ Collected
    /\ pc' = "fold"
    /\ UNCHANGED <<outer, args, accum, start_time, now, pool, pools_created,
                   ranges,
                   batch, ghost, error, returned>>

\* line 31: starmap re-raises a worker's exception; it leaves the with block,
\* whose exit terminates the pool, and the call
StarmapRaise ==
    /\ pc = "starmap"
    /\ BatchResolved
    /\ \E t \in Collected : t.st = "err"
    /\ tasks' = tasks \ Collected
    /\ pool' = 0
    /\ error' = "WorkerFailure"
    /\ pc' = "raised"
    /\ UNCHANGED <<outer, args, accum, start_time, now, pools_created, ranges,
                   results, batch, ghost, returned>>

\* a fold that adds the batch to the estimate instead of replacing it
NewPiValueAccumulated == FAdd(pi_value, FMul4(SumSeq(results)))

\* line 34
NewPiValue == FMul4(SumSeq(results))

\* a fold that counts one chunk instead of the whole batch
NewTotalIterationsOneChunk == total_iterations + chunk_size

\* line 35
NewTotalIterations == total_iterations + chunk_size * num_processes

\* lines 34-35
Fold ==
    /\ pc = "fold"
    /\ pi_value' = NewPiValue
    /\ total_iterations' = NewTotalIterations
    /\ folded' = folded + 1
    /\ batch_sums' = Append(batch_sums, SumSeq(results))
    /\ pc' = "check"
    /\ UNCHANGED <<outer, args, start_time, now, pool, pools_created, ranges,
                   tasks,
                   results, batch, issued, error, returned>>

\* line 37: the condition of the break
DeadlinePassed == elapsed >= time_limit

\* lines 37-38
DeadlineCheck ==
    /\ pc = "check"
    /\ pc' = IF DeadlinePassed THEN "exit" ELSE "loop"
    /\ UNCHANGED <<outer, args, accum, start_time, now, pool, pools_created,
                   ranges,
                   tasks, results, batch, ghost, error, returned>>

\* leaving the block without terminating the pool
ExitPoolLeak ==
    /\ pc = "exit"
    /\ pc' = "return"
    /\ UNCHANGED <<outer, args, accum, start_time, now, pool, pools_created,
                   ranges,
                   tasks, results, batch, ghost, error, returned>>

\* leaving the with block of line 24: Pool.__exit__ terminates the pool
ExitPool ==
    /\ pc = "exit"
    /\ pool' = 0
    /\ pc' = "return"
    /\ UNCHANGED <<outer, args, accum, start_time, now, pools_created, ranges,
                   tasks,
                   results, batch, ghost, error, returned>>

\* line 40
Return ==
    /\ pc = "return"
    /\ returned' = <<total_iterations, pi_value>>
    /\ pc' = "done"
    /\ UNCHANGED <<outer, args, accum, start_time, now, pool, pools_created,
                   ranges,
                   tasks, results, batch, ghost, error>>

Next ==
    \/ Tick
    \/ Begin
    \/ CreatePool
    \/ LoopCheck
    \/ Dispatch
    \/ \E t \in tasks : WorkerStart(t)
    \/ \E t \in tasks : WorkerFinish(t)
    \/ \E t \in tasks : WorkerFail(t)
    \/ StarmapReturn
    \/ StarmapRaise
    \/ Fold
    \/ DeadlineCheck
    \/ ExitPool
    \/ Return

Spec == Init /\ [][Next]_vars

\* a run in which no chunk evaluation fails
NextCompleting ==
    \/ Tick
    \/ Begin
    \/ CreatePool
    \/ LoopCheck
    \/ Dispatch
    \/ \E t \in tasks : WorkerStart(t)
    \/ \E t \in tasks : WorkerFinish(t)
    \/ StarmapReturn
    \/ Fold
    \/ DeadlineCheck
    \/ ExitPool
    \/ Return

\* the clock keeps advancing, the control thread keeps running, and the
\* worker processes take queued chunks and run them to the end
Fairness ==
    /\ WF_vars(Tick)
    /\ WF_vars(Begin \/ CreatePool \/ LoopCheck \/ Dispatch \/ StarmapReturn
                 \/ Fold \/ DeadlineCheck \/ ExitPool \/ Return)
    /\ WF_vars(\E t \in tasks : WorkerStart(t))
    /\ WF_vars(\E t \in tasks : WorkerFinish(t))

LiveSpec == Init /\ [][NextCompleting]_vars /\ Fairness

\* ------------------------------------------- the evaluator used on its own
\* no call of calculate_pi_parallel is in progress
NoCall ==
    /\ num_processes = 0
    /\ time_limit = 0
    /\ chunk_size = 1
    /\ now = 0
    /\ total_iterations = 0
    /\ pi_value = 0
    /\ start_time = 0
    /\ pc = "idle"
    /\ pool = 0
    /\ pools_created = 0
    /\ ranges = <<>>
    /\ tasks = {}
    /\ results = <<>>
    /\ batch = 0
    /\ folded = 0
    /\ issued = <<>>
    /\ batch_sums = <<>>
    /\ error = ""
    /\ returned = <<>>

call == <<args, accum, start_time, now, pc, pool, pools_created, ranges,
          tasks, results, batch, ghost, error, returned>>

Indices == 0 .. MaxIndex

\* three indices a <= b <= c are given; nothing is evaluated yet
EvalInit ==
    /\ NoCall
    /\ \E a, b, c \in Indices :
          /\ a <= b
          /\ b <= c
          /\ ev = [a |-> a, b |-> b, c |-> c, st |-> "args",
                   whole |-> 0, left |-> 0, right |-> 0]
    /\ other = <<>>
    /\ main_pc = "none"
    /\ n_processes = 0
    /\ main_results = <<>>
    /\ chunk_time = 0

\* gregory_leibniz_worker on [a, c), on [a, b) and on [b, c)
Evaluate ==
    /\ ev # <<>>
    /\ ev.st = "args"
    /\ ev' = [ev EXCEPT !.st = "done",
                        !.whole = gregory_leibniz_worker(ev.a, ev.c),
                        !.left = gregory_leibniz_worker(ev.a, ev.b),
                        !.right = gregory_leibniz_worker(ev.b, ev.c)]
    /\ UNCHANGED <<call, other, main_pc, n_processes, main_results,
                   chunk_time>>

EvalNext == Evaluate

EvalSpec == EvalInit /\ [][EvalNext]_vars

\* ------------------------------------------------------------------- main
\* line 43: process_counts = range(1, 21), scaled down to 1 .. MaxWorkers
LastProcessCount == MaxWorkers

\* line 14: the default time_limit = 60, scaled down to MaxTimeLimit ticks
DefaultTimeLimit == MaxTimeLimit

\* lines 43-44: main is about to enter its loop
MainStart ==
    /\ num_processes = 0
    /\ time_limit = 0
    /\ chunk_size \in ChunkSizes
    /\ now = 0
    /\ total_iterations = 0
    /\ pi_value = 0
    /\ start_time = 0
    /\ pc = "idle"
    /\ pool = 0
    /\ pools_created = 0
    /\ ranges = <<>>
    /\ tasks = {}
    /\ results = <<>>
    /\ batch = 0
    /\ folded = 0
    /\ issued = <<>>
    /\ batch_sums = <<>>
    /\ error = ""
    /\ returned = <<>>
    /\ ev = <<>>
    /\ other = <<>>
    /\ main_pc = "for"
    /\ n_processes = 0
    /\ main_results = <<>>

\* main with the real clock
MainInit == MainStart /\ chunk_time = 0

\* the variables of a call of calculate_pi_parallel that has not started
\* (w workers) or is over (w = 0); the clock is counted from this moment
FreshFrame(w, limit, state) ==
    /\ num_processes' = w
    /\ time_limit' = limit
    /\ now' = 0
    /\ total_iterations' = 0
    /\ pi_value' = 0
    /\ start_time' = 0
    /\ pc' = state
    /\ pool' = 0
    /\ pools_created' = 0
    /\ ranges' = <<>>
    /\ tasks' = {}
    /\ results' = <<>>
    /\ batch' = 0
    /\ folded' = 0
    /\ issued' = <<>>
    /\ batch_sums' = <<>>
    /\ error' = ""
    /\ returned' = <<>>
    /\ UNCHANGED chunk_size

\* lines 50-52: the next worker count, and the call with it
MainCall ==
    /\ main_pc = "for"
    /\ n_processes < LastProcessCount
    /\ n_processes' = n_processes + 1
    /\ main_pc' = "wait"
    /\ FreshFrame(n_processes + 1, DefaultTimeLimit, "call")
    /\ UNCHANGED <<ev, other, main_results, chunk_time>>

\* a main that puts each new result in front of the others
MainAppendInFront ==
    /\ main_pc = "wait"
    /\ pc = "done"
    /\ main_results' = <<returned>> \o main_results
    /\ main_pc' = "for"
    /\ FreshFrame(0, 0, "idle")
    /\ UNCHANGED <<ev, other, n_processes, chunk_time>>

\* lines 52-55: the call has returned; its result is appended
MainAppend ==
    /\ main_pc = "wait"
    /\ pc = "done"
    /\ main_results' = Append(main_results, returned)
    /\ main_pc' = "for"
    /\ FreshFrame(0, 0, "idle")
    /\ UNCHANGED <<ev, other, n_processes, chunk_time>>

\* line 52: an exception of the call is not caught; it ends main
MainRaise ==
    /\ main_pc = "wait"
    /\ pc = "raised"
    /\ main_pc' = "raised"
    /\ UNCHANGED <<call, ev, other, n_processes, main_results, chunk_time>>

\* line 50: process_counts is exhausted; lines 58-76 plot the results
MainEnd ==
    /\ main_pc = "for"
    /\ n_processes >= LastProcessCount
    /\ main_pc' = "plot"
    /\ UNCHANGED <<call, ev, other, n_processes, main_results, chunk_time>>

MainNext ==
    \/ MainCall
    \/ MainAppend
    \/ MainRaise
    \/ MainEnd
    \/ Next

MainSpec == MainInit /\ [][MainNext]_vars

\* ------------------------------------- main with a deterministic worker pool
\* every chunk takes chunk_time ticks of a simulated clock, the chunks of a
\* batch run in parallel, and nothing else takes time
ChunkTimes == 1 .. MaxTimeLimit + 1

DetInit == MainStart /\ chunk_time \in ChunkTimes

\* the time of the batch in flight has been counted
BatchTimed == elapsed = batch * chunk_time

\* the chunks of the batch are evaluated: chunk_time has gone by
SimulatedBatchTime ==
    /\ pc = "starmap"
    /\ BatchResolved
    /\ ~ BatchTimed
    /\ now' = now + chunk_time
    /\ UNCHANGED <<outer, args, accum, start_time, pc, pool, pools_created,
                   ranges, tasks, results, batch, ghost, error, returned>>

DetStarmapReturn == BatchTimed /\ StarmapReturn

DetNext ==
    \/ MainCall
    \/ MainAppend
    \/ MainEnd
    \/ Begin
    \/ CreatePool
    \/ LoopCheck
    \/ Dispatch
    \/ \E t \in tasks : WorkerStart(t)
    \/ \E t \in tasks : WorkerFinish(t)
    \/ SimulatedBatchTime
    \/ DetStarmapReturn
    \/ Fold
    \/ DeadlineCheck
    \/ ExitPool
    \/ Return

DetSpec == DetInit /\ [][DetNext]_vars

\* ------------------------------------------------- two concurrent calls
\* the locals of the call whose steps are being taken, and its pool
Frame ==
    [num_processes |-> num_processes, time_limit |-> time_limit,
     chunk_size |-> chunk_size, total_iterations |-> total_iterations,
     pi_value |-> pi_value, start_time |-> start_time, pc |-> pc,
     pool |-> pool, pools_created |-> pools_created, ranges |-> ranges,
     tasks |-> tasks, results |-> results, batch |-> batch,
     folded |-> folded, issued |-> issued, batch_sums |-> batch_sums,
     error |-> error, returned |-> returned]

\* a call entered with w workers, before its first step
EntryFrame(w, limit, c) ==
    [num_processes |-> w, time_limit |-> limit, chunk_size |-> c,
     total_iterations |-> 0, pi_value |-> 0, start_time |-> 0, pc |-> "call",
     pool |-> 0, pools_created |-> 0, ranges |-> <<>>, tasks |-> {},
     results |-> <<>>, batch |-> 0, folded |-> 0, issued |-> <<>>,
     batch_sums |-> <<>>, error |-> "", returned |-> <<>>]

\* the worker counts and time limits of the two calls
PairCounts == 1 .. 2
PairLimits == 1 .. MaxTimeLimit

\* two threads have each entered calculate_pi_parallel, with different
\* worker counts; time.time() is the one clock of both
PairInit ==
    /\ \E v, w \in PairCounts :
       \E limit \in PairLimits :
       \E c \in ChunkSizes :
          /\ v # w
          /\ num_processes = v
          /\ time_limit = limit
          /\ chunk_size = c
          /\ other = EntryFrame(w, limit, c)
    /\ now = 0
    /\ total_iterations = 0
    /\ pi_value = 0
    /\ start_time = 0
    /\ pc = "call"
    /\ pool = 0
    /\ pools_created = 0
    /\ ranges = <<>>
    /\ tasks = {}
    /\ results = <<>>
    /\ batch = 0
    /\ folded = 0
    /\ issued = <<>>
    /\ batch_sums = <<>>
    /\ error = ""
    /\ returned = <<>>
    /\ ev = <<>>
    /\ main_pc = "none"
    /\ n_processes = 0
    /\ main_results = <<>>
    /\ chunk_time = 0

\* a total_iterations that is one module-level counter of both calls
SwitchSharingTotal ==
    /\ other # <<>>
    /\ other' = Frame
    /\ num_processes' = other.num_processes
    /\ time_limit' = other.time_limit
    /\ chunk_size' = other.chunk_size
    /\ pi_value' = other.pi_value
    /\ start_time' = other.start_time
    /\ pc' = other.pc
    /\ pool' = other.pool
    /\ pools_created' = other.pools_created
    /\ ranges' = other.ranges
    /\ tasks' = other.tasks
    /\ results' = other.results
    /\ batch' = other.batch
    /\ folded' = other.folded
    /\ issued' = other.issued
    /\ batch_sums' = other.batch_sums
    /\ error' = other.error
    /\ returned' = other.returned
    /\ UNCHANGED <<total_iterations, now, ev, main_pc, n_processes,
                   main_results, chunk_time>>

\* the scheduler turns to the other call: each call has its own locals
\* (lines 19-22, 27, 31) and its own pool (line 24)
Switch ==
    /\ other # <<>>
    /\ other' = Frame
    /\ num_processes' = other.num_processes
    /\ time_limit' = other.time_limit
    /\ chunk_size' = other.chunk_size
    /\ total_iterations' = other.total_iterations
    /\ pi_value' = other.pi_value
    /\ start_time' = other.start_time
    /\ pc' = other.pc
    /\ pool' = other.pool
    /\ pools_created' = other.pools_created
    /\ ranges' = other.ranges
    /\ tasks' = other.tasks
    /\ results' = other.results
    /\ batch' = other.batch
    /\ folded' = other.folded
    /\ issued' = other.issued
    /\ batch_sums' = other.batch_sums
    /\ error' = other.error
    /\ returned' = other.returned
    /\ UNCHANGED <<now, ev, main_pc, n_processes, main_results, chunk_time>>

PairNext ==
    \/ Switch
    \/ Next

PairSpec == PairInit /\ [][PairNext]_vars

\* ----------------------------------------------------------------- claims
BatchSize == chunk_size * num_processes

\* C1: with W >= 1 workers, total_iterations (and the iteration count the call
\* returns) is a non-negative multiple of chunk_size * W, namely the number of
\* folded batches times chunk_size * W; it changes only by adding
\* chunk_size * W, in the step that folds a batch whose W results have all
\* been collected.
C1_IterationsMultipleOfBatch ==
    /\ [](num_processes >= 1 =>
            /\ total_iterations >= 0
            /\ total_iterations % BatchSize = 0
            /\ total_iterations = folded * BatchSize
            /\ returned # <<>> =>
                 /\ returned[1] >= 0
                 /\ returned[1] % BatchSize = 0)
    /\ [][total_iterations' # total_iterations =>
            /\ total_iterations' = total_iterations + BatchSize
            /\ pc = "fold"
            /\ tasks = {}
            /\ Len(results) = num_processes]_vars

C1_Witness ==
    /\ num_processes >= 2
    /\ folded >= 2
    /\ returned # <<>>
    /\ returned[1] = 2 * BatchSize

\* C2: the chunk ranges issued over one run are strictly increasing and
\* pairwise disjoint: a range issued later starts at or after the end of every
\* range issued before it.
C2_IssuedRangesDisjoint ==
    \A i, j \in 1 .. Len(issued) :
        i < j => issued[i][2] <= issued[j][1]

\* C3: once b >= 1 batches are folded, pi_value is 4 times the accumulated sum
\* of the b batches' sums of partial results.
C3_PiIsFourTimesRunningSum ==
    folded >= 1 => pi_value = FMul4(SumSeq(batch_sums))

\* the cursor the specification keeps: the first index no batch built so far
\* has covered, before the batch now in flight was built
CursorAtBatchStart == (batch - 1) * BatchSize

\* C4: a batch is num_processes ranges of length chunk_size, the k-th being
\* [nextIndex + k*chunk_size, nextIndex + (k+1)*chunk_size) for the cursor
\* nextIndex, which advances by num_processes*chunk_size per batch built.
C4_BatchRangesFollowCursor ==
    pc = "starmap" =>
        /\ Len(ranges) = num_processes
        /\ \A j \in 1 .. Len(ranges) :
              ranges[j] = <<CursorAtBatchStart + (j - 1) * chunk_size,
                            CursorAtBatchStart + j * chunk_size>>

\* C5 as stated: a run with W >= 1 workers that returns has completed at
\* least one full batch, whatever the time limit.
C5_ReturnsAtLeastOneBatch ==
    (num_processes >= 1 /\ pc = "done") => returned[1] >= BatchSize

\* C5 amended: the deadline is checked at the head of the loop, the first time
\* before any batch, and after every fold, never while a batch is being built
\* or is in flight.  A run with W >= 1 workers that returns has completed at
\* least one full batch if its first check found elapsed < time_limit, and
\* otherwise has dispatched nothing and returns 0 iterations.
C5_FirstCheckDecides ==
    /\ []((num_processes >= 1 /\ pc = "done") =>
            \/ batch >= 1 /\ folded = batch /\ returned[1] >= BatchSize
            \/ batch = 0 /\ folded = 0 /\ returned[1] = 0)
    /\ [][(pc = "loop" /\ batch = 0 /\ pc' # pc) =>
            /\ elapsed < time_limit => (pc' = "build" /\ batch' = 0)
            /\ elapsed >= time_limit => pc' = "exit"]_vars
    /\ [][(pc \in {"build", "starmap", "fold"}) =>
            pc' \in {"build", "starmap", "fold", "check", "raised"}]_vars

C5_Witness ==
    /\ num_processes >= 1
    /\ time_limit >= 1
    /\ pc = "done"
    /\ folded = 1
    /\ elapsed > time_limit
    /\ returned[1] = BatchSize

\* C6: a call with num_processes < 1 ends in an error and does no work: no
\* pool is created, no chunk is dispatched, nothing is returned.
C6_NoWorkersIsAnError ==
    num_processes < 1 =>
        /\ pool = 0
        /\ pools_created = 0
        /\ batch = 0
        /\ tasks = {}
        /\ issued = <<>>
        /\ returned = <<>>
        /\ pc \in {"call", "pool", "raised"}
        /\ pc = "raised" => error = "ValueError"

C6_Witness ==
    /\ num_processes = 0
    /\ pc = "raised"
    /\ error = "ValueError"

\* C7 as stated: a call with time_limit <= 0 fails before any worker is
\* spawned and returns no result.
C7_NonPositiveLimitFailsFast ==
    time_limit <= 0 =>
        /\ pools_created = 0
        /\ returned = <<>>

\* C7 amended: a call with time_limit <= 0 and W >= 1 workers signals no
\* error: it creates the pool, dispatches no chunk and returns (0, 0).
C7_NonPositiveLimitReturnsZero ==
    (time_limit <= 0 /\ num_processes >= 1) =>
        /\ error = ""
        /\ pc # "raised"
        /\ batch = 0
        /\ tasks = {}
        /\ pc \in {"loop", "exit", "return", "done"} => pools_created = 1
        /\ pc = "done" => returned = <<0, 0>>

C7_Witness ==
    /\ time_limit <= 0
    /\ num_processes >= 1
    /\ pools_created = 1
    /\ pc = "done"
    /\ returned = <<0, 0>>

\* C8: when a chunk evaluation of a batch fails, the run ends in an error:
\* the batch is not folded into pi_value or total_iterations, nothing is
\* dispatched after it, and nothing is returned; what is folded is always the
\* evaluator's own value for every range of the batch.
C8_WorkerFailureAbortsRun ==
    /\ (\E t \in tasks : t.st = "err") => pc = "starmap"
    /\ pc = "fold" =>
          \A j \in 1 .. num_processes :
              results[j] = gregory_leibniz_worker(ranges[j][1], ranges[j][2])
    /\ error = "WorkerFailure" =>
          /\ pc = "raised"
          /\ returned = <<>>
          /\ tasks = {}
          /\ folded = batch - 1
          /\ Len(batch_sums) = folded
          /\ total_iterations = folded * BatchSize
          /\ Len(issued) = batch * num_processes
    /\ pc = "raised" => ~ ENABLED Next

C8_Witness ==
    /\ error = "WorkerFailure"
    /\ pc = "raised"
    /\ batch = 2
    /\ folded = 1
    /\ total_iterations = BatchSize

\* C9: while a batch is in flight the accumulator state is unchanged; it is
\* changed only by the control thread's fold, in one step, after all the
\* batch's results have been collected.
C9_AccumulatorFrame ==
    /\ [][tasks # {} => UNCHANGED <<total_iterations, pi_value, ranges>>]_vars
    /\ [][<<total_iterations, pi_value>>' # <<total_iterations, pi_value>> =>
            /\ pc = "fold"
            /\ pc' = "check"
            /\ tasks = {}
            /\ Len(results) = num_processes
            /\ total_iterations' = total_iterations + BatchSize]_vars

C9_Witness ==
    /\ folded >= 1
    /\ pi_value # 0
    /\ \E t \in tasks : t.st = "ok"
    /\ \E t \in tasks : t.st = "running"

\* C10: batches are strictly sequential: every chunk the pool holds belongs
\* to the batch dispatched last, a batch is built only when every batch
\* before it has been folded, and a batch is folded only when the pool holds
\* none of its chunks any more.
C10_OneBatchInFlight ==
    /\ \A t \in tasks : t.b = batch
    /\ tasks # {} =>
          /\ Cardinality(tasks) <= num_processes
          /\ pc = "starmap"
          /\ folded = batch - 1
    /\ pc = "build" => (tasks = {} /\ folded = batch)
    /\ pc = "starmap" => folded = batch - 1

C10_Witness ==
    /\ batch = 2
    /\ folded = 1
    /\ Cardinality(tasks) = num_processes
    /\ num_processes >= 2
    /\ \E t \in tasks : t.st = "queued"
    /\ \E t \in tasks : t.st = "ok"

\* the partial results of one batch of w workers, in the order of its ranges
BatchResults(w, c) ==
    [j \in 1 .. w |-> gregory_leibniz_worker((j - 1) * c, j * c)]

\* the estimate after b batches, from the worker count and chunk size alone
ExpectedPi(w, c, b) ==
    IF b = 0 THEN 0 ELSE FMul4(SumSeq(BatchResults(w, c)))

\* C11: the estimate held and returned is a function of num_processes,
\* chunk_size and the number of folded batches, whatever the order in which
\* the workers of each batch started and finished.
C11_PiDeterminedByInputs ==
    /\ pi_value = ExpectedPi(num_processes, chunk_size, folded)
    /\ returned # <<>> =>
          returned[2] = ExpectedPi(num_processes, chunk_size, folded)

C11_Witness ==
    /\ num_processes = 3
    /\ folded >= 2
    /\ pc = "done"
    /\ returned[2] = ExpectedPi(3, chunk_size, 2)
    /\ returned[2] # 0

\* C12: the deadline is looked at only between batches.  A batch handed to
\* the pool leaves it only with all its num_processes chunks evaluated, and
\* is then folded even when the deadline passed meanwhile; no batch is built
\* after a check that found elapsed >= time_limit, so the last batch was
\* admitted while elapsed < time_limit.
C12_DeadlineOnlyAtBatchBoundaries ==
    /\ [][(pc = "starmap" /\ pc' = "fold") =>
            /\ Cardinality(tasks) = num_processes
            /\ \A t \in tasks : t.st = "ok"
            /\ tasks' = {}]_vars
    /\ [][(pc = "starmap" /\ pc' \notin {"starmap", "fold"}) =>
            (pc' = "raised" /\ \E t \in tasks : t.st = "err")]_vars
    /\ [][(pc = "fold" /\ pc' # pc) =>
            (pc' = "check" /\ folded' = folded + 1)]_vars
    /\ [][(pc \in {"loop", "check"} /\ elapsed >= time_limit /\ pc' # pc) =>
            pc' = "exit"]_vars
    /\ [][pc' = "build" => (pc = "build" \/ elapsed < time_limit)]_vars
    /\ [](pc \in {"exit", "return", "done"} => (tasks = {} /\ folded = batch))
    /\ [][(pc \in {"exit", "return", "done"}) =>
            /\ batch' = batch
            /\ pc' \in {"exit", "return", "done"}]_vars

C12_Witness ==
    /\ time_limit >= 1
    /\ pc = "done"
    /\ batch = 2
    /\ folded = 2
    /\ elapsed > time_limit

\* C16: a run creates its pool once, with num_processes workers; the pool
\* keeps that size from the first deadline check to the end of the loop and
\* is gone once the run has returned or raised; never are more than
\* num_processes chunk evaluations running.
C16_PoolLifetime ==
    /\ pools_created <= 1
    /\ pool \in {0, num_processes}
    /\ pc \in {"call", "pool"} => (pool = 0 /\ pools_created = 0)
    /\ pc \in {"loop", "build", "starmap", "fold", "check", "exit"} =>
          (pool = num_processes /\ pool >= 1 /\ pools_created = 1)
    /\ pc \in {"return", "done", "raised"} => pool = 0
    /\ Cardinality(Running) <= pool

C16_Witness ==
    /\ pc = "done"
    /\ pool = 0
    /\ pools_created = 1
    /\ folded >= 2
    /\ num_processes >= 2

\* C19: once a run has folded a batch, pi_value is 4 times the sum of the
\* partial results of the batch folded last, every folded batch has the same
\* sum, so pi_value is what it was after the first batch, while
\* total_iterations is chunk_size * num_processes times the number of folds.
C19_PiIsLastBatchOnly ==
    folded >= 1 =>
        /\ Len(batch_sums) = folded
        /\ pi_value = FMul4(batch_sums[folded])
        /\ \A i \in 1 .. folded : batch_sums[i] = batch_sums[1]
        /\ pi_value = FMul4(batch_sums[1])
        /\ total_iterations = folded * BatchSize
        /\ returned # <<>> => returned = <<folded * BatchSize, FMul4(batch_sums[1])>>

C19_Witness ==
    /\ folded = 3
    /\ pc = "done"
    /\ returned[1] = 3 * BatchSize
    /\ returned[2] = FMul4(batch_sums[1])
    /\ returned[2] # 0

\* C20: when the first deadline check of a run with num_processes >= 1 finds
\* elapsed >= time_limit, the run leaves the loop at once, dispatches no chunk
\* and returns (0, 0) without an error.
C20_ElapsedAtFirstCheckReturnsZero ==
    /\ [][(pc = "loop" /\ batch = 0 /\ elapsed >= time_limit /\ pc' # pc) =>
            pc' = "exit"]_vars
    /\ []((num_processes >= 1 /\ batch = 0 /\ pc \in {"exit", "return", "done"}) =>
            /\ tasks = {}
            /\ issued = <<>>
            /\ error = ""
            /\ total_iterations = 0
            /\ pi_value = 0
            /\ pc = "done" => returned = <<0, 0>>)

C20_Witness ==
    /\ num_processes >= 1
    /\ time_limit >= 1
    /\ batch = 0
    /\ pc = "done"
    /\ returned = <<0, 0>>
    /\ error = ""

\* C13: with the clock advancing and every dispatched chunk evaluation
\* completing, a run with num_processes >= 1 eventually returns
\* (total_iterations, pi_value).
C13_RunReturns ==
    (num_processes >= 1) =>
        <>(pc = "done" /\ returned = <<total_iterations, pi_value>>)

C13_Witness ==
    /\ num_processes >= 1
    /\ time_limit = MaxTimeLimit
    /\ pc = "done"
    /\ folded >= 1
    /\ returned = <<total_iterations, pi_value>>

\* C17 as stated: evaluate(a, c) = evaluate(a, b) + evaluate(b, c) exactly,
\* for 0 <= a <= b <= c.
C17_ExactlyAdditive ==
    (ev # <<>> /\ ev.st = "done") => ev.whole = FAdd(ev.left, ev.right)

\* C17 amended: evaluate(a, c) is the accumulation over [b, c) continued from
\* evaluate(a, b); evaluate over an empty range is 0, so the sum is exact when
\* b = a or b = c; otherwise evaluate(a, b) + evaluate(b, c) equals
\* evaluate(a, c) up to rounding, within (4(c - a) + 1) * 2^-(MantBits + 1).
C17_AdditiveUpToRounding ==
    (ev # <<>> /\ ev.st = "done") =>
        /\ ev.whole = WorkerLoop(ev.b, ev.c, ev.left)
        /\ ev.a = ev.b => ev.left = 0
        /\ ev.b = ev.c => ev.right = 0
        /\ (ev.a = ev.b \/ ev.b = ev.c) => ev.whole = FAdd(ev.left, ev.right)
        /\ LET sum  == FAdd(ev.left, ev.right)
               diff == IF ev.whole >= sum THEN ev.whole - sum
                       ELSE sum - ev.whole
           IN  diff * 2 ^ (MantBits + 1) <= (4 * (ev.c - ev.a) + 1) * One

C17_Witness ==
    /\ ev # <<>>
    /\ ev.st = "done"
    /\ ev.a < ev.b
    /\ ev.b < ev.c
    /\ ev.whole # FAdd(ev.left, ev.right)
    /\ ev.whole = WorkerLoop(ev.b, ev.c, ev.left)

\* the number of batches behind an iteration count of a run with w workers
BatchesOf(iterations, w) == iterations \div (chunk_size * w)

\* C18: main calls calculate_pi_parallel once for each worker count
\* 1, 2, ..., LastProcessCount in ascending order, starts a call only when no
\* call is in progress, and appends each result in that order: entry w of
\* the results is the result of the run with w workers, and after the loop
\* there are LastProcessCount entries.
C18_MainCallsInOrder ==
    /\ [](/\ main_pc = "for" => (pc = "idle" /\ Len(main_results) = n_processes)
          /\ main_pc \in {"wait", "raised"} =>
                /\ pc # "idle"
                /\ num_processes = n_processes
                /\ time_limit = DefaultTimeLimit
                /\ Len(main_results) = n_processes - 1
          /\ main_pc = "plot" =>
                (pc = "idle" /\ Len(main_results) = LastProcessCount)
          /\ n_processes \in 0 .. LastProcessCount
          /\ main_pc \in {"for", "plot"} =>
                \A w \in 1 .. Len(main_results) :
                    /\ main_results[w][1] % (chunk_size * w) = 0
                    /\ main_results[w][2] =
                         ExpectedPi(w, chunk_size,
                                    BatchesOf(main_results[w][1], w)))
    /\ [][n_processes' # n_processes =>
            /\ n_processes' = n_processes + 1
            /\ pc = "idle"
            /\ pc' = "call"
            /\ num_processes' = n_processes']_vars
    /\ [][main_results' # main_results =>
            /\ pc = "done"
            /\ main_results' = Append(main_results, returned)
            /\ num_processes = Len(main_results) + 1]_vars

C18_Witness ==
    /\ main_pc = "plot"
    /\ Len(main_results) = LastProcessCount
    /\ \A w \in 1 .. LastProcessCount : main_results[w][1] >= chunk_size * w
    /\ main_results[1][2] # main_results[2][2]

\* C14: with a deterministic pool, a fixed chunk_size and a fixed time_limit,
\* the iterations returned do not decrease as the worker count grows: every
\* worker count completes the same number of batches, so the iterations of
\* two runs are in the proportion of their worker counts.
C14_IterationsGrowWithWorkers ==
    \A v, w \in 1 .. Len(main_results) :
        v <= w =>
            /\ main_results[v][1] <= main_results[w][1]
            /\ main_results[v][1] * w = main_results[w][1] * v

C14_Witness ==
    /\ main_pc = "plot"
    /\ chunk_time = 1
    /\ Len(main_results) = LastProcessCount
    /\ main_results[1][1] = DefaultTimeLimit * chunk_size
    /\ main_results[1][1] < main_results[2][1]
    /\ main_results[2][1] < main_results[LastProcessCount][1]

\* what a call with w workers and chunk size c returns after b batches when
\* it runs alone (C1 and C11)
AloneResult(w, c, b) == <<b * c * w, ExpectedPi(w, c, b)>>

\* C15: two concurrent calls with different worker counts do not touch each
\* other's state: a step of one call leaves the other call's frame as it is,
\* and each call returns what it returns alone after the same number of
\* batches.
C15_ConcurrentCallsIndependent ==
    /\ [](/\ num_processes # other.num_processes
          /\ pc = "done" =>
                returned = AloneResult(num_processes, chunk_size, folded)
          /\ total_iterations = folded * chunk_size * num_processes
          /\ other.total_iterations =
                other.folded * other.chunk_size * other.num_processes)
    /\ [][\/ other' = other
          \/ (other' = Frame /\ Frame' = other)]_vars

C15_Witness ==
    /\ pc = "done"
    /\ other.pc = "done"
    /\ folded >= 2
    /\ other.folded >= 1
    /\ folded # other.folded
    /\ returned = AloneResult(num_processes, chunk_size, folded)
    /\ other.returned =
          AloneResult(other.num_processes, other.chunk_size, other.folded)

=============================================================================
